---------------------------- MODULE Spec2Model ----------------------------
(***************************************************************************)
(* Model of merge_and_post_to_facebook.py: the usage tracker file, the     *)
(* selector, the composer, the publisher and the orchestrator (__main__).  *)
(*                                                                         *)
(* Three programs are specified over the same state:                       *)
(*   Spec      one process running the script again and again, each run    *)
(*             finishing before the next starts (FairSpec adds fairness);  *)
(*   SpecConc  NProcs processes running the script with overlap, sharing   *)
(*             the tracker file;                                           *)
(*   SpecApi   one call of one function of the module, its arguments drawn *)
(*             from bounded sets.                                          *)
(*                                                                         *)
(* Everything outside the process (the remote folders, the HTTP services,  *)
(* the media library) answers as an oracle fixed when a run starts: the    *)
(* first step the environment makes fail, and the URL an upload returns.   *)
(***************************************************************************)
EXTENDS Integers, Sequences, FiniteSets, TLC

VARIABLES
    tracker,    \* content of the file POSTED_MEDIA_TRACKER
    tracker0,   \* history: the content of the file when the behaviour began
    proc,       \* proc[p]: the locals and position of process p's run of __main__
    run_no,     \* history: number of runs started so far
    prev,       \* history: summary of the last run that ended before a restart
    call        \* SpecApi: the function call being made and what it returned

vars == <<tracker, tracker0, proc, run_no, prev, call>>

----------------------------------------------------------------------------
\* Bounds of the model.

MaxRuns == 2        \* runs of the script in one behaviour
NProcs == 2         \* processes of SpecConc
MaxTracker == 2     \* records in the tracker file when a behaviour starts
MaxDur == 4         \* clip durations, in ticks
MaxLen == 3         \* characters of a generated video base name

Procs == 1..NProcs
SeqProcs == {1}

None == "None"

----------------------------------------------------------------------------
\* Module constants.

CLOUDINARY_SOURCE_VIDEO_FOLDER == "Quotes_Videos"
CLOUDINARY_SOURCE_MUSIC_FOLDER == "backmusic"

SUPPORTED_VIDEO_EXTENSIONS == {".mp4", ".avi", ".mov", ".mkv", ".webm", ".flv", ".wmv"}
SUPPORTED_AUDIO_EXTENSIONS == {".mp3", ".wav", ".ogg", ".aac", ".flac"}

\* The names the module's import statements bind. re is not among them.
ImportedNames ==
    {"os", "random", "cloudinary", "VideoFileClip", "AudioFileClip",
     "CompositeAudioClip", "concatenate_videoclips", "requests", "tempfile",
     "shutil", "json", "sys"}

----------------------------------------------------------------------------
\* The remote catalog: the secure_url of each resource and the extension
\* os.path.splitext(url.split('?')[0])[1].lower() gives for it.

VideoFolderUrls == {"v1.mp4", "v2.MOV?x=1", "v3.txt"}
MusicFolderUrls == {"a1.mp3", "a2.WAV", "a3.txt"}
MergedUrls == {"m1", "m2"}

UrlExt(url) ==
    CASE url = "v1.mp4" -> ".mp4"
      [] url = "v2.MOV?x=1" -> ".mov"
      [] url = "v3.txt" -> ".txt"
      [] url = "a1.mp3" -> ".mp3"
      [] url = "a2.WAV" -> ".wav"
      [] url = "a3.txt" -> ".txt"
      [] OTHER -> ""

\* Duration, in ticks, of the media behind each URL.
UrlDur(url) ==
    CASE url = "v1.mp4" -> 3
      [] url = "v2.MOV?x=1" -> 2
      [] url = "a1.mp3" -> 2
      [] url = "a2.WAV" -> 4
      [] OTHER -> 1

----------------------------------------------------------------------------
\* The tracker file.  kind is what is on disk: "missing", "empty" (zero
\* bytes), "garbage" (text that is no JSON), "undecodable" (bytes that are no
\* text in the locale's encoding) or "json"; for "json", top is the type of
\* the top-level value ("list", "object" for {}, "null") and items the
\* elements of the list.  An item is a JSON object with some of the keys of a
\* usage record, or a number.

Item(d, hv, hm, v, a, m) ==
    [dict |-> d, has_video |-> hv, has_merged |-> hm,
     source_video_url |-> v, source_audio_url |-> a, merged_cloudinary_url |-> m]

UsageRecord(v, a, m) == Item(TRUE, TRUE, TRUE, v, a, m)

WellFormedItems ==
    {UsageRecord(v, "a1.mp3", "m1") : v \in {"v1.mp4", "v2.MOV?x=1"}}

MalformedItems ==
    {Item(TRUE, FALSE, TRUE, None, "a1.mp3", "m1"),     \* no "source_video_url" key
     Item(FALSE, FALSE, FALSE, None, None, None)}       \* a number

Items == WellFormedItems \cup MalformedItems

\* For the calls of SpecApi: also records of the other merged URL and a
\* record without the "merged_cloudinary_url" key.
ApiItems ==
    Items \cup {UsageRecord("v1.mp4", "a1.mp3", "m2"),
                Item(TRUE, TRUE, FALSE, "v1.mp4", "a1.mp3", None)}

SeqsUpTo(S, n) == UNION {[1..k -> S] : k \in 0..n}

File(kind, top, items) == [kind |-> kind, top |-> top, items |-> items]

JsonList(items) == File("json", "list", items)

TrackerFiles(items) ==
    {File(k, "none", <<>>) : k \in {"missing", "empty", "garbage", "undecodable"}}
    \cup {File("json", t, <<>>) : t \in {"object", "null"}}
    \cup {JsonList(s) : s \in SeqsUpTo(items, MaxTracker)}

\* What a Python call does: return a value or raise.
Returns(v) == [raised |-> FALSE, val |-> v]
Raises == [raised |-> TRUE, val |-> File("json", "null", <<>>)]

\* get_posted_media(): the parsed JSON value, [] for a missing file and for a
\* JSONDecodeError; any other error of open/read (UnicodeDecodeError) escapes.
get_posted_media(file) ==
    CASE file.kind = "missing" -> Returns(JsonList(<<>>))
      [] file.kind \in {"empty", "garbage"} -> Returns(JsonList(<<>>))
      [] file.kind = "undecodable" -> Raises
      [] OTHER -> Returns(file)

\* Iterating the parsed value: a list gives its items, {} gives nothing,
\* None raises TypeError.
IterRaises(json) == json.top = "null"
IterItems(json) == IF json.top = "list" THEN json.items ELSE <<>>

Range(s) == {s[i] : i \in DOMAIN s}


----------------------------------------------------------------------------
\* The environment of one run: the first step it makes fail ("none": no
\* step fails) and the secure_url an upload would return.

Faults ==
    {"none",
     "video_list_raise", "video_list_empty", "video_list_unsupported",
     "audio_list_raise", "audio_list_empty", "audio_list_unsupported",
     "download_video_http", "download_video_oserror", "download_audio_http",
     "decode_error", "concat_error", "encode_error",
     "upload_error", "no_credentials", "publish_http"}

\* Only a run that gets as far as the upload sees the URL it returns.
Envs ==
    {[fault |-> f, merged |-> "m1"] : f \in Faults}
    \cup {[fault |-> f, merged |-> "m2"] : f \in {"none", "no_credentials", "publish_http"}}

NoEnv == [fault |-> "none", merged |-> "m1"]

\* cloudinary.api.resources(prefix=folder_name + "/")['resources'], or an error.
Listing(folder_name, env) ==
    IF folder_name = CLOUDINARY_SOURCE_VIDEO_FOLDER
    THEN CASE env.fault = "video_list_raise" -> [raised |-> TRUE, resources |-> {}]
           [] env.fault = "video_list_empty" -> [raised |-> FALSE, resources |-> {}]
           [] env.fault = "video_list_unsupported" -> [raised |-> FALSE, resources |-> {"v3.txt"}]
           [] OTHER -> [raised |-> FALSE, resources |-> VideoFolderUrls]
    ELSE CASE env.fault = "audio_list_raise" -> [raised |-> TRUE, resources |-> {}]
           [] env.fault = "audio_list_empty" -> [raised |-> FALSE, resources |-> {}]
           [] env.fault = "audio_list_unsupported" -> [raised |-> FALSE, resources |-> {"a3.txt"}]
           [] OTHER -> [raised |-> FALSE, resources |-> MusicFolderUrls]

----------------------------------------------------------------------------
\* Selector.

\* [item['source_video_url'] for item in posted_media] raises for the first
\* item that is no object (TypeError) or has no such key (KeyError).
SourceVideoUrlsRaises(json) ==
    IterRaises(json)
    \/ \E item \in Range(IterItems(json)) : ~item.dict \/ ~item.has_video

SourceVideoUrls(json) == {item.source_video_url : item \in Range(IterItems(json))}

\* A variant of the selector that leaves out the exclusion of used videos.
GetRandomMediaUrlNoExclusion(folder_name, supported_extensions, listing, file) ==
    LET all_urls == {u \in listing.resources : UrlExt(u) \in supported_extensions}
    IN  IF listing.raised \/ all_urls = {} THEN {None} ELSE all_urls

\* get_random_media_url: the set of values the call may return.  Every
\* exception raised inside is caught and gives None.
GetRandomMediaUrl(folder_name, supported_extensions, listing, file) ==
    LET all_urls == {u \in listing.resources : UrlExt(u) \in supported_extensions}
        posted_media == get_posted_media(file)
        unposted_source_urls == all_urls \ SourceVideoUrls(posted_media.val)
    IN  IF listing.raised THEN {None}
        ELSE IF listing.resources = {} THEN {None}
        ELSE IF all_urls = {} THEN {None}
        ELSE IF folder_name = CLOUDINARY_SOURCE_VIDEO_FOLDER
             THEN IF posted_media.raised THEN {None}
                  ELSE IF SourceVideoUrlsRaises(posted_media.val) THEN {None}
                  ELSE IF unposted_source_urls = {} THEN {None}
                  ELSE unposted_source_urls
             ELSE all_urls

----------------------------------------------------------------------------
\* Composer.  Text is a sequence of characters; a clip is the sequence of
\* its ticks.

Digits == {"0", "1", "2", "3", "4", "5", "6", "7", "8", "9"}
\* The character U+2014 of line 169, one element of a text.
EmDash == "U+2014"

NoText == [none |-> TRUE, chars |-> <<>>]
Text(s) == [none |-> FALSE, chars |-> s]

\* re.sub(r'-\d+$', '', s): drop a trailing hyphen followed by one or more
\* digits; the digits taken are the whole run of digits that ends the name.
RECURSIVE TrailingDigits(_)
TrailingDigits(s) ==
    IF s # <<>> /\ s[Len(s)] \in Digits
    THEN 1 + TrailingDigits(SubSeq(s, 1, Len(s) - 1))
    ELSE 0

ReSubTrailingId(s) ==
    LET d == TrailingDigits(s)
    IN  IF d > 0 /\ Len(s) > d /\ s[Len(s) - d] = "-"
        THEN SubSeq(s, 1, Len(s) - d - 1)
        ELSE s

\* str.replace for one character.
Replace(s, old, new) == [i \in DOMAIN s |-> IF s[i] = old THEN new ELSE s[i]]

\* str.strip(): drop the whitespace at both ends.
RECURSIVE LStrip(_)
LStrip(s) == IF s # <<>> /\ s[1] = " " THEN LStrip(Tail(s)) ELSE s
RECURSIVE RStrip(_)
RStrip(s) == IF s # <<>> /\ s[Len(s)] = " " THEN RStrip(SubSeq(s, 1, Len(s) - 1)) ELSE s
Strip(s) == LStrip(RStrip(s))

\* Lines 166-172, given that the name re is bound.
CleanName(original_video_basename) ==
    Strip(Replace(Replace(ReSubTrailingId(original_video_basename), "_", " "), EmDash, "-"))

\* Line 175: "merged_" + name with spaces as underscores + ".mp4".
OutputFilename(clean) ==
    <<"m", "e", "r", "g", "e", "d", "_">> \o Replace(clean, " ", "_") \o <<".", "m", "p", "4">>

AudioClip(duration) == [i \in 1..duration |-> i]

\* clip.subclip(0, t_end): the part of the clip before t_end.
Subclip(clip, t_end) == SubSeq(clip, 1, IF t_end < Len(clip) THEN t_end ELSE Len(clip))

RECURSIVE Repeat(_, _)
Repeat(clip, n) == IF n = 0 THEN <<>> ELSE clip \o Repeat(clip, n - 1)

\* A variant of the loop count without the extra repetition.
NumLoopsExact(video_duration, audio_duration) == video_duration \div audio_duration

\* Line 156: int(video_clip.duration / audio_clip.duration) + 1.
NumLoops(video_duration, audio_duration) == (video_duration \div audio_duration) + 1

\* Lines 150-158: the audio clip handed to set_audio.
AdjustAudio(audio_clip, video_duration) ==
    IF Len(audio_clip) > video_duration
    THEN Subclip(audio_clip, video_duration)
    ELSE IF Len(audio_clip) < video_duration
    THEN Subclip(Repeat(audio_clip, NumLoops(video_duration, Len(audio_clip))), video_duration)
    ELSE audio_clip

MergeResult(path, title, attached, audio) ==
    [path |-> path, title |-> title, attached |-> attached, audio |-> audio]

\* merge_video_with_audio(video_path, audio_path, output_folder).  video and
\* audio are the local files: base name and decoded duration.  lib is what
\* the media library does: "ok", or the call of it that raises.  The result
\* is the returned pair, with the audio given to set_audio (attached, audio)
\* kept as history.  Every exception is caught and gives (None, None).
merge_video_with_audio(video, audio, lib) ==
    LET audio_clip == AudioClip(audio.duration)
        looping == audio.duration < video.duration
        adjusted == AdjustAudio(audio_clip, video.duration)
        clean_original_video_name == CleanName(video.base)
    IN  IF lib = "decode_error"
        THEN MergeResult(NoText, NoText, FALSE, <<>>)
        ELSE IF looping /\ lib = "concat_error"
        THEN MergeResult(NoText, NoText, FALSE, <<>>)
        ELSE IF "re" \notin ImportedNames
        THEN MergeResult(NoText, NoText, TRUE, adjusted)    \* NameError at line 166
        ELSE IF lib = "encode_error"
        THEN MergeResult(NoText, NoText, TRUE, adjusted)
        ELSE MergeResult(Text(OutputFilename(clean_original_video_name)),
                         Text(clean_original_video_name), TRUE, adjusted)

\* Python truth value of a str-or-None.
Falsy(t) == t.none \/ t.chars = <<>>


----------------------------------------------------------------------------
\* Usage tracker: writing.

\* save_posted_media, run with no other process touching the file between
\* its read (line 56) and its write (lines 64-65): the file after the call,
\* or raised when the call raises before writing (an undecodable file; {} and
\* None have no append).  The record's "timestamp" (the identifiers of the
\* CI run) is left out.  A run of __main__ takes the three steps RecordRead,
\* RecordOpen and RecordDump instead.
SavePostedMedia(file, video_url, audio_url, merged_cloudinary_url) ==
    LET posted_media == get_posted_media(file)
    IN  IF posted_media.raised \/ posted_media.val.top # "list"
        THEN [raised |-> TRUE, file |-> file]
        ELSE [raised |-> FALSE,
              file |-> JsonList(Append(posted_media.val.items,
                           UsageRecord(video_url, audio_url, merged_cloudinary_url)))]

----------------------------------------------------------------------------
\* Publisher.

\* [item['merged_cloudinary_url'] for item in posted_media
\*  if 'merged_cloudinary_url' in item] raises TypeError for None and for an
\* item that is a number.
MergedUrlsRaises(json) ==
    IterRaises(json) \/ \E item \in Range(IterItems(json)) : ~item.dict

AlreadyPostedMergedUrls(json) ==
    {item.merged_cloudinary_url : item \in {i \in Range(IterItems(json)) : i.has_merged}}

PostResult(raised, ret, requests) == [raised |-> raised, ret |-> ret, requests |-> requests]

\* post_video_to_facebook(video_url, post_title): whether it raised, what it
\* returned, and the number of requests.post calls it made.
PostVideoToFacebook(video_url, file, env) ==
    LET posted_media == get_posted_media(file)
    IN  IF env.fault = "no_credentials" THEN PostResult(FALSE, FALSE, 0)
        ELSE IF posted_media.raised THEN PostResult(TRUE, FALSE, 0)
        ELSE IF MergedUrlsRaises(posted_media.val) THEN PostResult(TRUE, FALSE, 0)
        ELSE IF video_url \in AlreadyPostedMergedUrls(posted_media.val)
        THEN PostResult(FALSE, TRUE, 0)
        ELSE PostResult(FALSE, env.fault # "publish_http", 1)

\* upload_merged_video_to_cloudinary(file_path): the secure_url, or None.
UploadMergedVideoToCloudinary(env) ==
    IF env.fault = "upload_error" THEN None ELSE env.merged

\* download_file(url, local_path).  requests.get and raise_for_status (lines
\* 120-121) come first: their RequestException is caught and gives False, and
\* the file is not opened.  Otherwise an OSError of open or write (lines
\* 122-124) is no RequestException and escapes.  Otherwise True.
DownloadFile(failed_http, failed_os) ==
    IF failed_http THEN [raised |-> FALSE, ret |-> FALSE]
    ELSE IF failed_os THEN [raised |-> TRUE, ret |-> FALSE]
    ELSE [raised |-> FALSE, ret |-> TRUE]

----------------------------------------------------------------------------
\* Orchestrator: one process running __main__.

\* The base name of the downloaded video, whatever the URL: lines 292-293.
TempSourceVideo ==
    <<"t", "e", "m", "p", "_", "s", "o", "u", "r", "c", "e", "_", "v", "i", "d", "e", "o">>

IdleProc ==
    [pc |-> "idle", env |-> NoEnv, temp_dir |-> FALSE,
     downloaded_source_video_url |-> None, downloaded_source_audio_url |-> None,
     merged_local_file_path |-> NoText, clean_video_title |-> NoText,
     final_merged_cloudinary_url |-> None, exit_code |-> -1,
     \* history of the run
     failed |-> FALSE, n_get |-> 0, n_upload |-> 0, n_post |-> 0, n_write |-> 0,
     n_cleanup |-> 0, attached |-> FALSE, audio |-> <<>>,
     \* local of save_posted_media
     posted_media |-> <<>>]

NoPrev == [ran |-> FALSE, fault_free |-> FALSE, merged |-> None, exit_code |-> -1,
           n_post |-> 0, n_write |-> 0]

\* What is remembered of a run that has ended: whether its environment made
\* no step fail, the URL its upload returned then, its exit code and writes.
Summary(r) ==
    [ran |-> TRUE, fault_free |-> r.env.fault = "none",
     merged |-> IF r.env.fault = "none" THEN r.env.merged ELSE None,
     exit_code |-> r.exit_code, n_post |-> r.n_post, n_write |-> r.n_write]

\* sys.exit(1) inside the try block: SystemExit passes the except clause and
\* the finally block runs.
Abort(r) == [r EXCEPT !.pc = "cleanup", !.exit_code = 1, !.failed = TRUE]

\* Lines 263-272: a new process, its temporary directory made.
StartRun(p) ==
    /\ proc[p].pc \in {"idle", "done"}
    /\ run_no < MaxRuns
    /\ \E e \in Envs :
         proc' = [proc EXCEPT ![p] = [IdleProc EXCEPT !.pc = "select_video",
                                                     !.env = e, !.temp_dir = TRUE]]
    /\ run_no' = run_no + 1
    /\ prev' = IF proc[p].pc = "done" THEN Summary(proc[p]) ELSE prev
    /\ UNCHANGED <<tracker, tracker0, call>>

\* A variant of step 1 that records the video as used when it is selected.
SelectVideoMarkUsed(p) ==
    LET r == proc[p] IN
    /\ r.pc = "select_video"
    /\ \E url \in GetRandomMediaUrl(CLOUDINARY_SOURCE_VIDEO_FOLDER, SUPPORTED_VIDEO_EXTENSIONS,
                                    Listing(CLOUDINARY_SOURCE_VIDEO_FOLDER, r.env), tracker) :
         /\ proc' = [proc EXCEPT ![p] =
                      IF url = None THEN Abort(r)
                      ELSE [r EXCEPT !.downloaded_source_video_url = url,
                                     !.pc = "select_audio"]]
         /\ tracker' = IF url = None THEN tracker
                       ELSE SavePostedMedia(tracker, url, None, None).file
    /\ UNCHANGED <<tracker0, run_no, prev, call>>

\* Lines 276-279.
SelectVideo(p) ==
    LET r == proc[p] IN
    /\ r.pc = "select_video"
    /\ \E url \in GetRandomMediaUrl(CLOUDINARY_SOURCE_VIDEO_FOLDER, SUPPORTED_VIDEO_EXTENSIONS,
                                    Listing(CLOUDINARY_SOURCE_VIDEO_FOLDER, r.env), tracker) :
         proc' = [proc EXCEPT ![p] =
                    IF url = None THEN Abort(r)
                    ELSE [r EXCEPT !.downloaded_source_video_url = url,
                                   !.pc = "select_audio"]]
    /\ UNCHANGED <<tracker, tracker0, run_no, prev, call>>

\* Lines 282-285.
SelectAudio(p) ==
    LET r == proc[p] IN
    /\ r.pc = "select_audio"
    /\ \E url \in GetRandomMediaUrl(CLOUDINARY_SOURCE_MUSIC_FOLDER, SUPPORTED_AUDIO_EXTENSIONS,
                                    Listing(CLOUDINARY_SOURCE_MUSIC_FOLDER, r.env), tracker) :
         proc' = [proc EXCEPT ![p] =
                    IF url = None THEN Abort(r)
                    ELSE [r EXCEPT !.downloaded_source_audio_url = url,
                                   !.pc = "download_video"]]
    /\ UNCHANGED <<tracker, tracker0, run_no, prev, call>>

\* A variant of step 3 that goes on after a failed download.
DownloadVideoNoAbort(p) ==
    LET r == proc[p]
        d == DownloadFile(r.env.fault = "download_video_http",
                          r.env.fault = "download_video_oserror")
    IN
    /\ r.pc = "download_video"
    /\ proc' = [proc EXCEPT ![p] =
                  [r EXCEPT !.n_get = @ + 1, !.pc = "download_audio",
                            !.failed = d.raised \/ ~d.ret]]
    /\ UNCHANGED <<tracker, tracker0, run_no, prev, call>>

\* Lines 295-297; an exception of download_file reaches line 329.
DownloadVideo(p) ==
    LET r == proc[p]
        d == DownloadFile(r.env.fault = "download_video_http",
                          r.env.fault = "download_video_oserror")
    IN
    /\ r.pc = "download_video"
    /\ proc' = [proc EXCEPT ![p] =
                  IF d.raised \/ ~d.ret THEN Abort([r EXCEPT !.n_get = @ + 1])
                  ELSE [r EXCEPT !.n_get = @ + 1, !.pc = "download_audio"]]
    /\ UNCHANGED <<tracker, tracker0, run_no, prev, call>>

\* Lines 298-300.
DownloadAudio(p) ==
    LET r == proc[p]
        d == DownloadFile(r.env.fault = "download_audio_http", FALSE)
    IN
    /\ r.pc = "download_audio"
    /\ proc' = [proc EXCEPT ![p] =
                  IF d.raised \/ ~d.ret THEN Abort([r EXCEPT !.n_get = @ + 1])
                  ELSE [r EXCEPT !.n_get = @ + 1, !.pc = "merge"]]
    /\ UNCHANGED <<tracker, tracker0, run_no, prev, call>>

LibOf(env) ==
    IF env.fault \in {"decode_error", "concat_error", "encode_error"} THEN env.fault ELSE "ok"

\* Lines 303-306.
Merge(p) ==
    LET r == proc[p]
        m == merge_video_with_audio(
                 [base |-> TempSourceVideo, duration |-> UrlDur(r.downloaded_source_video_url)],
                 [duration |-> UrlDur(r.downloaded_source_audio_url)],
                 LibOf(r.env))
        r1 == [r EXCEPT !.merged_local_file_path = m.path, !.clean_video_title = m.title,
                        !.attached = m.attached, !.audio = m.audio]
    IN
    /\ r.pc = "merge"
    /\ proc' = [proc EXCEPT ![p] =
                  IF Falsy(m.path) \/ Falsy(m.title) THEN Abort(r1)
                  ELSE [r1 EXCEPT !.pc = "upload"]]
    /\ UNCHANGED <<tracker, tracker0, run_no, prev, call>>

\* Lines 309-312.
Upload(p) ==
    LET r == proc[p]
        url == UploadMergedVideoToCloudinary(r.env)
        r1 == [r EXCEPT !.final_merged_cloudinary_url = url, !.n_upload = @ + 1]
    IN
    /\ r.pc = "upload"
    /\ proc' = [proc EXCEPT ![p] =
                  IF url = None THEN Abort(r1) ELSE [r1 EXCEPT !.pc = "publish"]]
    /\ UNCHANGED <<tracker, tracker0, run_no, prev, call>>

\* Lines 316-319 and 325-327; an exception of the publisher reaches line 329.
Publish(p) ==
    LET r == proc[p]
        res == PostVideoToFacebook(r.final_merged_cloudinary_url, tracker, r.env)
        r1 == [r EXCEPT !.n_post = @ + res.requests]
    IN
    /\ r.pc = "publish"
    /\ proc' = [proc EXCEPT ![p] =
                  IF res.raised \/ ~res.ret THEN Abort(r1) ELSE [r1 EXCEPT !.pc = "record"]]
    /\ UNCHANGED <<tracker, tracker0, run_no, prev, call>>

\* Line 323, save_posted_media lines 56-63: the list is read and the new
\* record appended to it in memory; an exception reaches line 329.
RecordRead(p) ==
    LET r == proc[p]
        read == get_posted_media(tracker)
    IN
    /\ r.pc = "record"
    /\ proc' = [proc EXCEPT ![p] =
                  IF read.raised \/ read.val.top # "list" THEN Abort(r)
                  ELSE [r EXCEPT !.posted_media =
                                    Append(read.val.items,
                                           UsageRecord(r.downloaded_source_video_url,
                                                       r.downloaded_source_audio_url,
                                                       r.final_merged_cloudinary_url)),
                                 !.pc = "record_open"]]
    /\ UNCHANGED <<tracker, tracker0, run_no, prev, call>>

\* save_posted_media line 64: open(..., 'w') creates the file or cuts it to
\* zero bytes.
RecordOpen(p) ==
    LET r == proc[p] IN
    /\ r.pc = "record_open"
    /\ tracker' = File("empty", "none", <<>>)
    /\ proc' = [proc EXCEPT ![p] = [r EXCEPT !.pc = "record_dump"]]
    /\ UNCHANGED <<tracker0, run_no, prev, call>>

\* What the file holds once this process's text is written from offset 0
\* and the file closed.  Over a file still empty it is this process's list.
\* Over text another process wrote since line 64 it is this process's list
\* when that text is no longer than this one, and otherwise this list
\* followed by the tail of that text, which is no JSON.  Which text is the
\* longer is decided by the characters of the records, their "timestamp"
\* (line 59, taken from the environment of each run) included, and not by
\* the number of records; the model keeps no text of a record, so both
\* outcomes are possible over any file that is not empty.
DumpOutcomes(file, posted_media) ==
    IF file.kind = "empty"
    THEN {JsonList(posted_media)}
    ELSE {JsonList(posted_media), File("garbage", "none", <<>>)}

\* save_posted_media line 65 and lines 324, 333: json.dump writes the list
\* read at line 56 with the new record, and the run goes on to its end.
RecordDump(p) ==
    LET r == proc[p] IN
    /\ r.pc = "record_dump"
    /\ tracker' \in DumpOutcomes(tracker, r.posted_media)
    /\ proc' = [proc EXCEPT ![p] =
                  [r EXCEPT !.n_write = @ + 1, !.pc = "cleanup", !.exit_code = 0]]
    /\ UNCHANGED <<tracker0, run_no, prev, call>>

\* Lines 333-341: the finally block; shutil.rmtree removes the directory or
\* raises OSError, which is printed.  Then the process ends.
Cleanup(p) ==
    LET r == proc[p] IN
    /\ r.pc = "cleanup"
    /\ \E removed \in BOOLEAN :
         proc' = [proc EXCEPT ![p] =
                    [r EXCEPT !.n_cleanup = @ + 1, !.pc = "done",
                              !.temp_dir = r.temp_dir /\ ~removed]]
    /\ UNCHANGED <<tracker, tracker0, run_no, prev, call>>

NoCall == [fn |-> "none"]

Init ==
    /\ tracker \in TrackerFiles(Items)
    /\ tracker0 = tracker
    /\ proc = [p \in Procs |-> IdleProc]
    /\ run_no = 0
    /\ prev = NoPrev
    /\ call = NoCall

\* The steps a run can take.  merge_video_with_audio returns (None, None) on
\* every path (MergeNeverSucceeds), so a run never reaches Upload, Publish,
\* RecordRead, RecordOpen or RecordDump: they are no part of the next-state
\* relation.
Step(p) ==
    \/ StartRun(p)
    \/ SelectVideo(p)
    \/ SelectAudio(p)
    \/ DownloadVideo(p)
    \/ DownloadAudio(p)
    \/ Merge(p)
    \/ Cleanup(p)

Next == \E p \in SeqProcs : Step(p)

Spec == Init /\ [][Next]_vars

\* A process that is not killed keeps running: its next statement is executed.
FairSpec == Spec /\ WF_vars(Next)

NextConc == \E p \in Procs : Step(p)

SpecConc == Init /\ [][NextConc]_vars

\* The composer returns (None, None) whatever it is given.
MergeNeverSucceeds ==
    \A p \in Procs :
        proc[p].pc \notin {"upload", "publish", "record", "record_open", "record_dump"}


----------------------------------------------------------------------------
\* SpecApi: one call of one function of the module.

Alphabet == {"a", "_", "-", "1", " ", EmDash}

DailyWisdom ==
    <<"d", "a", "i", "l", "y", "_", "w", "i", "s", "d", "o", "m", "-",
      "1", "9", "3", "8", "4", "7", "5", "6", "1">>

MyQuote == <<"M", "y", " ", "Q", "u", "o", "t", "e">>

BaseNames == (SeqsUpTo(Alphabet, MaxLen) \ {<<>>}) \cup {DailyWisdom, MyQuote}

MergeCalls ==
    {[fn |-> "merge_video_with_audio", returned |-> FALSE,
      video |-> [base |-> b, duration |-> v], audio |-> [duration |-> a], lib |-> l] :
        b \in BaseNames, v \in 1..MaxDur, a \in 1..MaxDur,
        l \in {"ok", "decode_error", "concat_error", "encode_error"}}

TrackerCalls ==
    {[fn |-> "get_random_media_url", returned |-> FALSE, folder_name |-> f, env |-> e] :
        f \in {CLOUDINARY_SOURCE_VIDEO_FOLDER, CLOUDINARY_SOURCE_MUSIC_FOLDER}, e \in Envs}
    \cup {[fn |-> "post_video_to_facebook", returned |-> FALSE, video_url |-> u, env |-> e] :
        u \in MergedUrls, e \in Envs}
    \cup {[fn |-> "save_posted_media", returned |-> FALSE, video_url |-> v,
           audio_url |-> "a1.mp3", merged_cloudinary_url |-> m] :
        v \in {"v1.mp4", "v2.MOV?x=1"}, m \in MergedUrls}

OtherCalls ==
    {[fn |-> "upload_merged_video_to_cloudinary", returned |-> FALSE, env |-> e] : e \in Envs}
    \cup {[fn |-> "download_file", returned |-> FALSE, failed_http |-> h, failed_os |-> o] :
        h \in BOOLEAN, o \in BOOLEAN}

InitApi ==
    /\ \/ call \in MergeCalls \cup OtherCalls /\ tracker = File("missing", "none", <<>>)
       \/ call \in TrackerCalls /\ tracker \in TrackerFiles(ApiItems)
    /\ tracker0 = tracker
    /\ proc = [p \in Procs |-> IdleProc]
    /\ run_no = 0
    /\ prev = NoPrev

Pending(fn) == call.fn = fn /\ ~call.returned

ApiMerge ==
    /\ Pending("merge_video_with_audio")
    /\ call' = [fn |-> call.fn, returned |-> TRUE, video |-> call.video, audio |-> call.audio,
                lib |-> call.lib,
                ret |-> merge_video_with_audio(call.video, call.audio, call.lib)]
    /\ UNCHANGED <<tracker, tracker0, proc, run_no, prev>>

ApiGetRandomMediaUrl ==
    /\ Pending("get_random_media_url")
    /\ \E url \in GetRandomMediaUrl(
                      call.folder_name,
                      IF call.folder_name = CLOUDINARY_SOURCE_VIDEO_FOLDER
                      THEN SUPPORTED_VIDEO_EXTENSIONS ELSE SUPPORTED_AUDIO_EXTENSIONS,
                      Listing(call.folder_name, call.env), tracker) :
         call' = [fn |-> call.fn, returned |-> TRUE, folder_name |-> call.folder_name,
                  env |-> call.env, ret |-> url]
    /\ UNCHANGED <<tracker, tracker0, proc, run_no, prev>>

ApiPost ==
    /\ Pending("post_video_to_facebook")
    /\ call' = [fn |-> call.fn, returned |-> TRUE, video_url |-> call.video_url,
                env |-> call.env,
                ret |-> PostVideoToFacebook(call.video_url, tracker, call.env)]
    /\ UNCHANGED <<tracker, tracker0, proc, run_no, prev>>

ApiSave ==
    /\ Pending("save_posted_media")
    /\ LET res == SavePostedMedia(tracker, call.video_url, call.audio_url,
                                  call.merged_cloudinary_url)
       IN  /\ tracker' = res.file
           /\ call' = [fn |-> call.fn, returned |-> TRUE, video_url |-> call.video_url,
                       audio_url |-> call.audio_url,
                       merged_cloudinary_url |-> call.merged_cloudinary_url,
                       ret |-> res.raised]
    /\ UNCHANGED <<tracker0, proc, run_no, prev>>

ApiUpload ==
    /\ Pending("upload_merged_video_to_cloudinary")
    /\ call' = [fn |-> call.fn, returned |-> TRUE, env |-> call.env,
                ret |-> UploadMergedVideoToCloudinary(call.env)]
    /\ UNCHANGED <<tracker, tracker0, proc, run_no, prev>>

ApiDownload ==
    /\ Pending("download_file")
    /\ call' = [fn |-> call.fn, returned |-> TRUE, failed_http |-> call.failed_http,
                failed_os |-> call.failed_os,
                ret |-> DownloadFile(call.failed_http, call.failed_os)]
    /\ UNCHANGED <<tracker, tracker0, proc, run_no, prev>>

NextApi ==
    \/ ApiMerge
    \/ ApiGetRandomMediaUrl
    \/ ApiPost
    \/ ApiSave
    \/ ApiUpload
    \/ ApiDownload

SpecApi == InitApi /\ [][NextApi]_vars

MergeReturned == call.fn = "merge_video_with_audio" /\ call.returned


----------------------------------------------------------------------------
\* Claims about the composer (SpecApi).

\* C8: whenever the composer attaches an audio track, for audio duration a
\* and video duration v the track lasts exactly v and its tick i is tick
\* ((i - 1) mod a) + 1 of the original audio: the original cut at v when
\* a > v, the original itself when a = v, and when a < v whole repetitions of
\* the original, floor(v/a)+1 of them covering v, cut at v.
C8_AttachedAudioDuration ==
    (MergeReturned /\ call.ret.attached) =>
        LET a == call.audio.duration
            v == call.video.duration
            track == call.ret.audio
        IN  /\ Len(track) = v
            /\ \A i \in 1..v : track[i] = ((i - 1) % a) + 1
            /\ a < v => ((v \div a) + 1) * a >= v /\ (v \div a) * a <= v

\* C8 witness: an audio shorter than the video, the video no multiple of
\* it, looped and attached.
C8_Witness ==
    /\ MergeReturned
    /\ call.ret.attached
    /\ call.audio.duration < call.video.duration
    /\ call.video.duration % call.audio.duration # 0
    /\ Len(call.ret.audio) = call.video.duration

DailyWisdomTitle ==
    <<"d", "a", "i", "l", "y", " ", "w", "i", "s", "d", "o", "m">>

\* C9: when the media library raises nothing, the composer returns the
\* merged file path together with the title derived from the video's base
\* name: a trailing hyphen-and-digits suffix removed, underscores replaced by
\* spaces, the em-dash replaced by a hyphen, surrounding whitespace trimmed;
\* "daily_wisdom-193847561" gives "daily wisdom" and "My Quote" is returned
\* unchanged.
C9_TitleReturned ==
    (MergeReturned /\ call.lib = "ok") =>
        /\ ~call.ret.path.none
        /\ call.ret.title = Text(CleanName(call.video.base))
        /\ call.video.base = DailyWisdom => call.ret.title = Text(DailyWisdomTitle)
        /\ call.video.base = MyQuote => call.ret.title = Text(MyQuote)


----------------------------------------------------------------------------
\* Claims about runs of the script.

\* The usage records a tracker file holds, read off the file itself.
RecordsOf(file) ==
    IF file.kind = "json" /\ file.top = "list" THEN file.items ELSE <<>>

RecordedSourceVideos(file) ==
    {RecordsOf(file)[i].source_video_url :
        i \in {j \in DOMAIN RecordsOf(file) : RecordsOf(file)[j].has_video}}

NoSourceVideoTwice(file) ==
    \A i, j \in DOMAIN RecordsOf(file) :
        (i # j /\ RecordsOf(file)[i].has_video /\ RecordsOf(file)[j].has_video)
            => RecordsOf(file)[i].source_video_url # RecordsOf(file)[j].source_video_url

HoldsSelectedVideo(r) ==
    r.pc \in {"select_audio", "download_video", "download_audio", "merge",
              "upload", "publish", "record", "record_open", "record_dump"}

\* C1: in a sequence of runs that do not overlap, starting from a tracker in
\* which no source video URL is repeated, no source_video_url is ever in two
\* records; the video a run has selected is none the tracker records as
\* source_video_url; and a record added by a run holds the video URL the run
\* selected.
C1_NoSourceVideoTwice ==
    /\ [](NoSourceVideoTwice(tracker0) => NoSourceVideoTwice(tracker))
    /\ [](\A p \in SeqProcs :
            HoldsSelectedVideo(proc[p])
                => proc[p].downloaded_source_video_url \notin RecordedSourceVideos(tracker))
    /\ [][RecordsOf(tracker') # RecordsOf(tracker) /\ RecordsOf(tracker') # <<>> =>
            \E p \in SeqProcs :
                /\ RecordsOf(tracker')[Len(RecordsOf(tracker'))].source_video_url
                       = proc[p].downloaded_source_video_url
                /\ proc[p].downloaded_source_video_url # None]_vars

\* C1 witness: with one of the two supported videos recorded as used, a run
\* has selected the other one.
C1_Witness ==
    /\ RecordedSourceVideos(tracker) = {"v1.mp4"}
    /\ NoSourceVideoTwice(tracker0)
    /\ proc[1].pc = "select_audio"
    /\ proc[1].downloaded_source_video_url = "v2.MOV?x=1"

\* The supported videos the folder lists for a run.
SupportedVideos(env) ==
    {u \in Listing(CLOUDINARY_SOURCE_VIDEO_FOLDER, env).resources :
        UrlExt(u) \in SUPPORTED_VIDEO_EXTENSIONS}

\* Every supported video of the folder is recorded as used by a tracker that
\* is a list of usage records.
AllVideosUsed(env, file) ==
    /\ SupportedVideos(env) # {}
    /\ ~Listing(CLOUDINARY_SOURCE_VIDEO_FOLDER, env).raised
    /\ file.kind = "json" /\ file.top = "list"
    /\ \A i \in DOMAIN file.items : file.items[i].dict /\ file.items[i].has_video
    /\ SupportedVideos(env) \subseteq RecordedSourceVideos(file)

NoOutboundEffect(r) ==
    r.n_get = 0 /\ r.n_upload = 0 /\ r.n_post = 0 /\ r.n_write = 0

\* C4: when every supported video of the folder is recorded as used, the
\* selection step aborts the run with exit code 1, and up to its end the run
\* downloads, uploads and publishes nothing and leaves the tracker as it was.
C4_ExhaustionAborts ==
    /\ [][\A p \in SeqProcs :
            (proc[p].pc = "select_video" /\ AllVideosUsed(proc[p].env, tracker)
             /\ proc'[p] # proc[p])
                => /\ proc'[p].pc = "cleanup"
                   /\ proc'[p].exit_code = 1
                   /\ proc'[p].downloaded_source_video_url = None]_vars
    /\ [](\A p \in SeqProcs :
            (proc[p].pc \in {"cleanup", "done"}
             /\ proc[p].downloaded_source_video_url = None)
                => /\ proc[p].exit_code = 1
                   /\ NoOutboundEffect(proc[p]))
    /\ [][\A p \in SeqProcs :
            (proc[p].downloaded_source_video_url = None /\ proc[p].pc # "idle"
             /\ proc'[p].pc # "select_video")
                => tracker' = tracker]_vars

\* C4 witness: a run ended with exit code 1 without a video, both supported
\* videos of the full folder being recorded as used.
C4_Witness ==
    /\ proc[1].pc = "done"
    /\ proc[1].env.fault = "none"
    /\ AllVideosUsed(proc[1].env, tracker)
    /\ tracker = tracker0
    /\ proc[1].exit_code = 1
    /\ NoOutboundEffect(proc[1])


\* C7: the tracker file is written only by a run whose publish step
\* reported success, once per run: the run reads the list the file holds,
\* opens the file for writing and writes that list, unchanged and in the same
\* order, followed by one record of its video, audio and merged URL; so a run
\* that aborts, a merge failure included, never writes, and no record is
\* changed or removed.
C7_AppendOnly ==
    /\ [][tracker' # tracker =>
            \E p \in SeqProcs :
                \/ /\ proc[p].pc = "record_open"
                   /\ RecordsOf(tracker') = <<>>
                \/ /\ proc[p].pc = "record_dump"
                   /\ proc[p].n_write = 0 /\ proc'[p].n_write = 1
                   /\ tracker'.kind = "json" /\ tracker'.top = "list"
                   /\ tracker'.items = proc[p].posted_media]_vars
    /\ [][\A p \in SeqProcs :
            (proc[p].pc = "record" /\ proc'[p].pc = "record_open")
                => proc'[p].posted_media =
                     Append(RecordsOf(tracker),
                            UsageRecord(proc[p].downloaded_source_video_url,
                                        proc[p].downloaded_source_audio_url,
                                        proc[p].final_merged_cloudinary_url))]_vars
    /\ [](\A p \in SeqProcs : proc[p].n_write <= 1)
    /\ [](\A p \in SeqProcs : proc[p].failed => proc[p].n_write = 0)

\* C7 witness: a run that selected a video and then aborted in the merge
\* step has ended, the tracker holding the two records it held before.
C7_Witness ==
    /\ proc[1].pc = "done"
    /\ proc[1].failed
    /\ proc[1].attached
    /\ proc[1].downloaded_source_video_url # None
    /\ Len(RecordsOf(tracker)) = 2
    /\ tracker = tracker0

\* C6: every run that has started ends, having executed the cleanup exactly
\* once, as its last step; a step that failed is followed by the cleanup and
\* by nothing else, and the run then ends with a non-zero exit code.
C6_CleanupAlways ==
    /\ \A p \in SeqProcs :
         [](proc[p].pc \notin {"idle", "done"} => <>(proc[p].pc = "done"))
    /\ [](\A p \in SeqProcs :
            /\ proc[p].pc = "done" => proc[p].n_cleanup = 1
            /\ proc[p].pc \notin {"idle", "done"} => proc[p].n_cleanup = 0
            /\ proc[p].failed => proc[p].pc \in {"cleanup", "done"} /\ proc[p].exit_code = 1
            /\ (proc[p].pc = "done" /\ ~proc[p].failed) => proc[p].exit_code = 0)
    /\ [][\A p \in SeqProcs :
            (proc[p].failed /\ proc'[p] # proc[p] /\ proc[p].pc = "cleanup")
                => /\ proc'[p].pc = "done"
                   /\ proc'[p].n_get = proc[p].n_get
                   /\ proc'[p].n_upload = proc[p].n_upload
                   /\ proc'[p].n_post = proc[p].n_post
                   /\ proc'[p].exit_code = 1
                   /\ tracker' = tracker]_vars

\* C6 witness: a run whose video download raised an error that
\* download_file does not handle has cleaned up once and ended with code 1.
C6_Witness ==
    /\ proc[1].pc = "done"
    /\ proc[1].env.fault = "download_video_oserror"
    /\ proc[1].n_get = 1
    /\ proc[1].n_cleanup = 1
    /\ proc[1].exit_code = 1
    /\ ~proc[1].temp_dir

NoTrackerFile == File("missing", "none", <<>>)

CountMerged(file, url) ==
    Cardinality({i \in DOMAIN RecordsOf(file) :
                    RecordsOf(file)[i].has_merged
                    /\ RecordsOf(file)[i].merged_cloudinary_url = url})

\* C2: two successive runs, starting without a tracker file, in which no
\* step of the environment fails and whose uploads return the same merged
\* URL, make one publish request in total and leave one usage record with
\* that URL as merged_cloudinary_url.
C2_PublishedOnce ==
    (/\ tracker0 = NoTrackerFile
     /\ run_no = 2
     /\ prev.ran /\ prev.fault_free
     /\ proc[1].pc = "done" /\ proc[1].env.fault = "none"
     /\ prev.merged = proc[1].env.merged)
        => /\ prev.n_post + proc[1].n_post = 1
           /\ CountMerged(tracker, proc[1].env.merged) = 1

\* C3: a run in which no step of the environment fails and a video and an
\* audio track were selected ends with exit code 0, having made one publish
\* request and appended one usage record of the selected video, the selected
\* audio and the merged URL.
C3_FullSuccess ==
    \A p \in SeqProcs :
        (/\ proc[p].pc = "done"
         /\ proc[p].env.fault = "none"
         /\ proc[p].downloaded_source_video_url # None
         /\ proc[p].downloaded_source_audio_url # None)
            => /\ proc[p].exit_code = 0
               /\ proc[p].n_post = 1
               /\ proc[p].n_write = 1
               /\ Len(RecordsOf(tracker)) > 0
               /\ RecordsOf(tracker)[Len(RecordsOf(tracker))]
                    = UsageRecord(proc[p].downloaded_source_video_url,
                                  proc[p].downloaded_source_audio_url,
                                  proc[p].env.merged)

\* A tracker file that is absent or is no well-formed list of usage records.
AbsentOrCorrupt(file) ==
    \/ file.kind # "json"
    \/ file.top # "list"
    \/ \E i \in DOMAIN file.items :
         ~(file.items[i].dict /\ file.items[i].has_video /\ file.items[i].has_merged)

\* C5: with an absent or corrupt tracker file, a run whose folder lists
\* supported videos does not abort in the selection step: the tracker counts
\* as an empty history, which excludes no video.
C5_CorruptTrackerIsEmpty ==
    \A p \in SeqProcs :
        (/\ AbsentOrCorrupt(tracker)
         /\ tracker = tracker0
         /\ proc[p].env.fault = "none"
         /\ proc[p].pc \notin {"idle", "select_video"})
            => proc[p].downloaded_source_video_url # None

\* C10: when two overlapping runs, started without a tracker file in an
\* environment where no step fails, have both selected the same video and
\* both ended, each has made a publish request and the tracker holds two
\* usage records with that source_video_url.
C10_RaceDuplicates ==
    (/\ tracker0 = NoTrackerFile
     /\ \A p \in {1, 2} : proc[p].pc = "done" /\ proc[p].env.fault = "none"
     /\ proc[1].downloaded_source_video_url = proc[2].downloaded_source_video_url
     /\ proc[1].downloaded_source_video_url # None
     /\ run_no = 2)
        => /\ \A p \in {1, 2} : proc[p].n_post = 1
           /\ ~NoSourceVideoTwice(tracker)

\* Under SpecConc no tracker in which no source video repeats ever comes to
\* hold a source video twice.
ConcNoDuplicates == NoSourceVideoTwice(tracker0) => NoSourceVideoTwice(tracker)

============================================================================
